---- MODULE Spec2Model ----
(***************************************************************************)
(* Model of libbacktrace-python: the Python wrapper                        *)
(* (src/src/libbacktrace/__init__.py) in front of the native extension     *)
(* _libbacktrace.  The wrapper is translated from its source; the native   *)
(* extension (capture, fault handler) is not part of the source tree and   *)
(* is modelled from the design document.                                   *)
(***************************************************************************)
EXTENDS Integers, Sequences, FiniteSets, TLC

\* Python's None.
None == "None"

\* _default_state is None; BacktraceState objects are numbered from 1.
NoState == 0

(***************************************************************************)
(* Bounds of the model.                                                    *)
(***************************************************************************)
NumSignals == 2
NumThreads == 2
MaxSkipArg == 1
MainDepth == 2
MaxCallerDepth == 131
MaxSkip == 3
MaxPc == 300
MaxLine == 12
MaxReports == 1

Min(a, b) == IF a < b THEN a ELSE b

(***************************************************************************)
(* Signal names.                                                           *)
(***************************************************************************)
SIGSEGV == "SIGSEGV"
SIGABRT == "SIGABRT"
SIGFPE == "SIGFPE"
SIGBUS == "SIGBUS"
SIGILL == "SIGILL"
SIGTRAP == "SIGTRAP"
SIGSYS == "SIGSYS"

\* The platform's signals, default and non-default ones alternating so that
\* a prefix of the list holds both kinds.
SignalOrder == <<SIGSEGV, SIGILL, SIGABRT, SIGTRAP, SIGFPE, SIGBUS, SIGSYS>>

\* enable_faulthandler docstring: "Default: SIGSEGV, SIGABRT, SIGFPE, SIGBUS".
DefaultSignalNames == {SIGSEGV, SIGABRT, SIGFPE, SIGBUS}

\* _libbacktrace.get_signals(): the signals the platform can handle.
native_get_signals == SubSeq(SignalOrder, 1, Min(NumSignals, Len(SignalOrder)))

IsDefaultSignal(s) == s \in DefaultSignalNames

\* _libbacktrace.get_default_signals()
native_get_default_signals == SelectSeq(native_get_signals, IsDefaultSignal)

Range(q) == {q[i] : i \in 1..Len(q)}

Signals == Range(native_get_signals)

Threads == 1..NumThreads

\* Dispositions a signal can have before the fault handler is installed,
\* and the fault handler's own trampoline.
SIG_DFL == "SIG_DFL"
SIG_IGN == "SIG_IGN"
FH == "FH"
PriorDispositions == {SIG_DFL, SIG_IGN}

\* The values of the report_path argument: None or a file path.
ReportPaths == {None, "crash_report.txt"}

\* The values of the signals argument: None (written as the set holding only
\* None) or a non-empty list of signal names.
NoSignals == {None}
SignalArgs == {NoSignals} \cup (SUBSET Signals \ {{}})

(***************************************************************************)
(* BacktraceFrame and its rendering.                                       *)
(***************************************************************************)
\* Python truthiness of an Optional[str]: None and "" are both false.
Truthy(x) == x # None /\ x # ""

Digits == <<"0", "1", "2", "3", "4", "5", "6", "7", "8", "9",
            "a", "b", "c", "d", "e", "f">>

RECURSIVE FormatInt(_, _)
\* format(n, "x") and format(n, "d") for n >= 0: the digits of n in the
\* given base, most significant first, as a sequence of characters.
FormatInt(n, base) ==
    IF n < base THEN <<Digits[n + 1]>>
    ELSE FormatInt(n \div base, base) \o <<Digits[(n % base) + 1]>>

\* Mutant of BacktraceFrame_str: the pc is formatted in decimal.
BacktraceFrame_str_decimal(self) ==
    LET func == IF Truthy(self.function) THEN self.function ELSE "??"
    IN  IF Truthy(self.filename)
        THEN <<func, " at ", self.filename, ":">> \o FormatInt(self.lineno, 10)
        ELSE <<func, " at 0x">> \o FormatInt(self.pc, 10)

\* BacktraceFrame.__str__, as a sequence of text pieces.
BacktraceFrame_str(self) ==
    LET func == IF Truthy(self.function) THEN self.function ELSE "??"
    IN  IF Truthy(self.filename)
        THEN <<func, " at ", self.filename, ":">> \o FormatInt(self.lineno, 10)
        ELSE <<func, " at 0x">> \o FormatInt(self.pc, 16)

\* BacktraceFrame(pc=f[0], function=f[1], filename=f[2], lineno=f[3])
BacktraceFrame(f) ==
    [pc |-> f[1], function |-> f[2], filename |-> f[3], lineno |-> f[4]]

(***************************************************************************)
(* Capture.  A stack is a sequence of raw frames, innermost first; every   *)
(* wrapper layer that is entered pushes one frame of its own.              *)
(***************************************************************************)
MaxFrames == 128

\* The raw frame of a wrapper function.
WrapperFrame(name) == <<1, name, "libbacktrace/__init__.py", 1>>

\* The raw frame of the i-th caller above the library (1 = the caller of the
\* entry point).  Deeper frames have less symbol information.
CallerFrame(i) ==
    <<16 * i + 5,
      IF i % 3 = 0 THEN None ELSE "caller",
      IF i % 2 = 0 THEN None ELSE "caller.c",
      IF i % 2 = 0 THEN 0 ELSE i>>

CallerStack(depth) == [i \in 1..depth |-> CallerFrame(i)]

\* _libbacktrace.backtrace_full(state, skip): unwinds from its caller,
\* discards skip frames from the top and keeps at most MaxFrames of the rest.
native_backtrace_full(stack, skip) ==
    IF skip >= Len(stack) THEN <<>>
    ELSE SubSeq(stack, skip + 1, Min(Len(stack), skip + MaxFrames))

\* Mutant of BacktraceState_get_backtrace_call: skip is not passed on.
BacktraceState_get_backtrace_call_noskip(callers, skip) ==
    [stack |-> <<WrapperFrame("BacktraceState.get_backtrace")>> \o callers,
     skip |-> 1]

\* The native call BacktraceState.get_backtrace(skip) makes when its callers
\* are `callers`: the stack backtrace_full unwinds and the skip it is given.
BacktraceState_get_backtrace_call(callers, skip) ==
    [stack |-> <<WrapperFrame("BacktraceState.get_backtrace")>> \o callers,
     skip |-> skip + 1]

\* BacktraceState.get_backtrace(skip)
BacktraceState_get_backtrace(callers, skip) ==
    LET c == BacktraceState_get_backtrace_call(callers, skip)
        raw_frames == native_backtrace_full(c.stack, c.skip)
    IN  [i \in 1..Len(raw_frames) |-> BacktraceFrame(raw_frames[i])]

\* Mutant of get_backtrace_inner: skip is passed on without the extra one.
get_backtrace_inner_same_skip(callers, skip) ==
    [callers |-> <<WrapperFrame("get_backtrace")>> \o callers, skip |-> skip]

\* get_backtrace, line 162: the arguments of the call
\* _get_default_state().get_backtrace(skip + 1), which get_backtrace's own
\* frame now separates from its callers.
get_backtrace_inner(callers, skip) ==
    [callers |-> <<WrapperFrame("get_backtrace")>> \o callers, skip |-> skip + 1]

\* print_backtrace, line 176: the arguments of the call get_backtrace(skip + 1).
print_backtrace_inner(callers, skip) ==
    [callers |-> <<WrapperFrame("print_backtrace")>> \o callers, skip |-> skip + 1]

\* get_backtrace(skip), module level, given the value of _SUPPORTED.
get_backtrace(supp, callers, skip) ==
    IF ~supp THEN <<>>
    ELSE LET a == get_backtrace_inner(callers, skip)
         IN  BacktraceState_get_backtrace(a.callers, a.skip)

\* The frames print_backtrace(skip) obtains from get_backtrace.
print_backtrace_frames(supp, callers, skip) ==
    LET a == print_backtrace_inner(callers, skip)
    IN  get_backtrace(supp, a.callers, a.skip)

\* The native call a supported get_backtrace(skip) ends in.
get_backtrace_call(callers, skip) ==
    LET a == get_backtrace_inner(callers, skip)
    IN  BacktraceState_get_backtrace_call(a.callers, a.skip)

\* The native call a supported print_backtrace(skip) ends in.
print_backtrace_call(callers, skip) ==
    LET a == print_backtrace_inner(callers, skip)
    IN  get_backtrace_call(a.callers, a.skip)

\* The lines print_backtrace writes for the frames it obtained.
print_backtrace_lines(frames) ==
    IF frames = <<>> THEN << <<"  (native backtrace not available)">> >>
    ELSE [i \in 1..Len(frames) |->
            <<"  #">> \o FormatInt(i - 1, 10) \o <<" ">> \o BacktraceFrame_str(frames[i])]

VARIABLES
    SUPPORTED,       \* _SUPPORTED: the native extension imported
    default_state,   \* _default_state: None or the id of a BacktraceState
    nstates,         \* number of BacktraceState objects built so far
    tpc,             \* per thread: position inside get_backtrace / print_backtrace
    tentry,          \* per thread: the entry point it called
    targs,           \* per thread: callers and skip of the get_backtrace call
    tstate,          \* per thread: the BacktraceState it holds
    tret,            \* per thread: the frames its call returned
    tout,            \* per thread: the lines print_backtrace wrote
    ret,             \* the last fault-handler call, its return value, and
                     \* whether it is a disable that follows a disable
    native_called,   \* some call reached _libbacktrace
    fh_phase,        \* Disabled, Enabling, Installing, Swapping, Enabled, Disabling
    fh_active,       \* the active FaultHandlerConfig or None
    fh_pending,      \* the configuration the enable in progress installs
    fh_old,          \* the configuration that was active when that enable began
    fh_saved,        \* recorded original disposition per signal, or None
    fh_warm,         \* the handler's debug-info index is built
    disp,            \* the process's signal dispositions
    disp0,           \* the dispositions before the fault handler touched them
    req_cfg,         \* the configuration the caller of the last enable asked for
    enables,         \* enable calls of the current registration, counted up to 2
    proc,            \* running, handling, terminated
    cur,             \* the fault being handled
    stderr,          \* reports written to standard error
    files,           \* reports appended per report file
    termsig,         \* the signal that terminated the process
    cap,             \* capture study: inputs and results
    str_in,          \* rendering study: the frame
    str_out          \* rendering study: its rendering

platformVars == <<SUPPORTED>>
wrapperVars == <<default_state, nstates, tpc, tentry, targs, tstate, tret, tout>>
apiVars == <<ret, native_called>>
fhVars == <<fh_phase, fh_active, fh_pending, fh_old, fh_saved, fh_warm, disp,
            disp0, req_cfg, enables>>
faultVars == <<proc, cur, stderr, files, termsig>>
studyVars == <<cap, str_in, str_out>>
vars == <<platformVars, wrapperVars, apiVars, fhVars, faultVars, studyVars>>

(***************************************************************************)
(* Initial values of each group of variables.                              *)
(***************************************************************************)
NoRet == [op |-> None, val |-> FALSE, again |-> FALSE, done |-> TRUE]
\* No FaultHandlerConfig: every configuration has at least one signal.
NoConfig == [signals |-> {}, report_path |-> None]
NoFault == [sig |-> None, cfg |-> NoConfig, step |-> None]
NoArgs == [callers |-> <<>>, skip |-> 0]

InitWrapper ==
    /\ default_state = NoState
    /\ nstates = 0
    /\ tpc = [t \in Threads |-> "idle"]
    /\ tentry = [t \in Threads |-> None]
    /\ targs = [t \in Threads |-> NoArgs]
    /\ tstate = [t \in Threads |-> NoState]
    /\ tret = [t \in Threads |-> <<>>]
    /\ tout = [t \in Threads |-> <<>>]

InitApi ==
    /\ ret = NoRet
    /\ native_called = FALSE

InitFaultHandler(prior) ==
    /\ fh_phase = "Disabled"
    /\ fh_active = NoConfig
    /\ fh_pending = NoConfig
    /\ fh_old = NoConfig
    /\ fh_saved = [s \in Signals |-> None]
    /\ fh_warm = FALSE
    /\ disp = prior
    /\ disp0 = prior
    /\ req_cfg = NoConfig
    /\ enables = 0
    /\ proc = "running"
    /\ cur = NoFault
    /\ stderr = <<>>
    /\ files = [p \in ReportPaths \ {None} |-> <<>>]
    /\ termsig = None

NoCapture == [pc |-> "off"]
NoFrame == [pc |-> 0, function |-> None, filename |-> None, lineno |-> 0]

InitStudy ==
    /\ cap = NoCapture
    /\ str_in = NoFrame
    /\ str_out = <<>>

AllDefault == [s \in Signals |-> SIG_DFL]

(***************************************************************************)
(* Module-level get_backtrace / print_backtrace, one step per point where  *)
(* another thread can run.                                                 *)
(***************************************************************************)
MainCallers == CallerStack(MainDepth)

\* Where get_backtrace returns to.
ReturnPoint(t) == IF tentry[t] = "print_backtrace" THEN "pb_print" ELSE "idle"

\* A thread calls get_backtrace(skip).
Call_get_backtrace(t, skip) ==
    /\ tpc[t] = "idle"
    /\ tpc' = [tpc EXCEPT ![t] = "gb_guard"]
    /\ tentry' = [tentry EXCEPT ![t] = "get_backtrace"]
    /\ targs' = [targs EXCEPT ![t] = [callers |-> MainCallers, skip |-> skip]]
    /\ tret' = [tret EXCEPT ![t] = <<>>]
    /\ tout' = [tout EXCEPT ![t] = <<>>]
    /\ UNCHANGED <<default_state, nstates, tstate>>
    /\ UNCHANGED <<platformVars, apiVars, fhVars, faultVars, studyVars>>

\* A thread calls print_backtrace(skip), which calls get_backtrace(skip + 1).
Call_print_backtrace(t, skip) ==
    /\ tpc[t] = "idle"
    /\ tpc' = [tpc EXCEPT ![t] = "gb_guard"]
    /\ tentry' = [tentry EXCEPT ![t] = "print_backtrace"]
    /\ targs' = [targs EXCEPT ![t] = print_backtrace_inner(MainCallers, skip)]
    /\ tret' = [tret EXCEPT ![t] = <<>>]
    /\ tout' = [tout EXCEPT ![t] = <<>>]
    /\ UNCHANGED <<default_state, nstates, tstate>>
    /\ UNCHANGED <<platformVars, apiVars, fhVars, faultVars, studyVars>>

\* Mutant of GB_Guard: the check of _SUPPORTED is missing.
GB_Guard_missing(t) ==
    /\ tpc[t] = "gb_guard"
    /\ tpc' = [tpc EXCEPT ![t] = "gds_check"]
    /\ UNCHANGED <<default_state, nstates, tentry, targs, tstate, tret, tout>>
    /\ UNCHANGED <<platformVars, apiVars, fhVars, faultVars, studyVars>>

\* get_backtrace: "if not _SUPPORTED: return []".
GB_Guard(t) ==
    /\ tpc[t] = "gb_guard"
    /\ IF ~SUPPORTED
       THEN /\ tret' = [tret EXCEPT ![t] = <<>>]
            /\ tpc' = [tpc EXCEPT ![t] = ReturnPoint(t)]
       ELSE /\ tpc' = [tpc EXCEPT ![t] = "gds_check"]
            /\ UNCHANGED tret
    /\ UNCHANGED <<default_state, nstates, tentry, targs, tstate, tout>>
    /\ UNCHANGED <<platformVars, apiVars, fhVars, faultVars, studyVars>>

\* _get_default_state: "if _default_state is None".
GDS_Check(t) ==
    /\ tpc[t] = "gds_check"
    /\ tpc' = [tpc EXCEPT ![t] =
                 IF default_state = NoState THEN "gds_construct" ELSE "gds_return"]
    /\ UNCHANGED <<default_state, nstates, tentry, targs, tstate, tret, tout>>
    /\ UNCHANGED <<platformVars, apiVars, fhVars, faultVars, studyVars>>

\* _get_default_state: BacktraceState(), which raises RuntimeError when the
\* platform is not supported and otherwise has the native module build a state.
GDS_Construct(t) ==
    /\ tpc[t] = "gds_construct"
    /\ IF ~SUPPORTED
       THEN /\ tpc' = [tpc EXCEPT ![t] = "raised"]
            /\ UNCHANGED <<nstates, tstate, native_called>>
       ELSE /\ nstates' = nstates + 1
            /\ tstate' = [tstate EXCEPT ![t] = nstates + 1]
            /\ native_called' = TRUE
            /\ tpc' = [tpc EXCEPT ![t] = "gds_assign"]
    /\ UNCHANGED <<default_state, tentry, targs, tret, tout>>
    /\ UNCHANGED <<platformVars, ret, fhVars, faultVars, studyVars>>

\* _get_default_state: "_default_state = BacktraceState()", the store.
GDS_Assign(t) ==
    /\ tpc[t] = "gds_assign"
    /\ default_state' = tstate[t]
    /\ tpc' = [tpc EXCEPT ![t] = "gds_return"]
    /\ UNCHANGED <<nstates, tentry, targs, tstate, tret, tout>>
    /\ UNCHANGED <<platformVars, apiVars, fhVars, faultVars, studyVars>>

\* _get_default_state: "return _default_state", a fresh read of the global.
GDS_Return(t) ==
    /\ tpc[t] = "gds_return"
    /\ tstate' = [tstate EXCEPT ![t] = default_state]
    /\ tpc' = [tpc EXCEPT ![t] = "gb_capture"]
    /\ UNCHANGED <<default_state, nstates, tentry, targs, tret, tout>>
    /\ UNCHANGED <<platformVars, apiVars, fhVars, faultVars, studyVars>>

\* get_backtrace: ".get_backtrace(skip + 1)" on the state obtained.
GB_Capture(t) ==
    /\ tpc[t] = "gb_capture"
    /\ LET a == get_backtrace_inner(targs[t].callers, targs[t].skip)
       IN  tret' = [tret EXCEPT ![t] = BacktraceState_get_backtrace(a.callers, a.skip)]
    /\ native_called' = TRUE
    /\ tpc' = [tpc EXCEPT ![t] = ReturnPoint(t)]
    /\ UNCHANGED <<default_state, nstates, tentry, targs, tstate, tout>>
    /\ UNCHANGED <<platformVars, ret, fhVars, faultVars, studyVars>>

\* print_backtrace: the lines written once get_backtrace has returned.
PB_Print(t) ==
    /\ tpc[t] = "pb_print"
    /\ tout' = [tout EXCEPT ![t] = print_backtrace_lines(tret[t])]
    /\ tpc' = [tpc EXCEPT ![t] = "idle"]
    /\ UNCHANGED <<default_state, nstates, tentry, targs, tstate, tret>>
    /\ UNCHANGED <<platformVars, apiVars, fhVars, faultVars, studyVars>>

(***************************************************************************)
(* The native fault handler (_libbacktrace), from the design document:     *)
(* Disabled -> Enabling -> Enabled -> Disabling -> Disabled, one enable or *)
(* disable at a time, and fault deliveries in between any two steps.       *)
(***************************************************************************)
\* The signal set an enable call asks for: the default set if none is given.
ResolveSignals(signals) ==
    IF signals = NoSignals THEN Range(native_get_default_signals) ELSE signals

\* No enable or disable is in progress and the process runs ordinary code.
ApiIdle == proc = "running" /\ fh_phase \in {"Disabled", "Enabled"}

\* _libbacktrace.faulthandler_enabled(): the current registration state.
native_faulthandler_enabled == fh_active # NoConfig

\* _libbacktrace.enable_faulthandler, entry: the new configuration is built
\* as a snapshot of its own; the active one is left alone.
native_enable_begin(signals, report_path) ==
    /\ fh_phase' = "Enabling"
    /\ fh_pending' = [signals |-> ResolveSignals(signals), report_path |-> report_path]
    /\ fh_old' = fh_active
    /\ native_called' = TRUE
    /\ UNCHANGED <<fh_active, fh_saved, fh_warm, disp, disp0>>

\* Mutant of native_enable_warm: the index is left to be loaded lazily.
native_enable_warm_lazy ==
    /\ proc = "running"
    /\ fh_phase = "Enabling"
    /\ fh_phase' = "Installing"
    /\ UNCHANGED <<fh_active, fh_pending, fh_old, fh_saved, fh_warm, disp, disp0,
                   req_cfg, enables>>
    /\ UNCHANGED <<platformVars, wrapperVars, apiVars, faultVars, studyVars>>

\* Enabling, warm phase: the debug-info index the handler will read is built
\* before any handler is installed.
native_enable_warm ==
    /\ proc = "running"
    /\ fh_phase = "Enabling"
    /\ fh_warm' = TRUE
    /\ fh_phase' = "Installing"
    /\ UNCHANGED <<fh_active, fh_pending, fh_old, fh_saved, disp, disp0,
                   req_cfg, enables>>
    /\ UNCHANGED <<platformVars, wrapperVars, apiVars, faultVars, studyVars>>

\* The disposition recorded for s when the handler is installed for it: the
\* previous one, unless an original is on record already.
RecordDisposition(s) == IF fh_saved[s] = None THEN disp[s] ELSE fh_saved[s]

\* Enabling, installation: the handler is installed for each requested
\* signal and the signal's previous disposition is recorded.
native_enable_install ==
    /\ proc = "running"
    /\ fh_phase = "Installing"
    /\ fh_saved' = [s \in Signals |->
                      IF s \in fh_pending.signals THEN RecordDisposition(s)
                      ELSE fh_saved[s]]
    /\ disp' = [s \in Signals |-> IF s \in fh_pending.signals THEN FH ELSE disp[s]]
    /\ fh_phase' = "Swapping"
    /\ UNCHANGED <<fh_active, fh_pending, fh_old, fh_warm, disp0, req_cfg, enables>>
    /\ UNCHANGED <<platformVars, wrapperVars, apiVars, faultVars, studyVars>>

\* The configuration that becomes active when the pending one is swapped in.
SwappedConfig == fh_pending

\* Enabling, swap: the new configuration replaces the active one in one
\* store; signals of the old configuration that the new one drops get their
\* original disposition back.  The call returns True.
native_enable_swap ==
    /\ proc = "running"
    /\ fh_phase = "Swapping"
    /\ fh_active' = SwappedConfig
    /\ disp' = [s \in Signals |->
                  IF s \notin fh_pending.signals /\ fh_saved[s] # None
                  THEN fh_saved[s] ELSE disp[s]]
    /\ fh_saved' = [s \in Signals |->
                      IF s \in fh_pending.signals THEN fh_saved[s] ELSE None]
    /\ fh_phase' = "Enabled"
    /\ ret' = [ret EXCEPT !.val = TRUE, !.done = TRUE]
    /\ fh_pending' = NoConfig
    /\ fh_old' = NoConfig
    /\ UNCHANGED <<fh_warm, disp0, req_cfg, enables>>
    /\ UNCHANGED <<platformVars, wrapperVars, native_called, faultVars, studyVars>>

\* _libbacktrace.disable_faulthandler, entry: nothing to do and True when
\* already disabled, else the restoration starts.
native_disable_begin ==
    /\ native_called' = TRUE
    /\ IF fh_phase = "Disabled"
       THEN /\ ret' = [op |-> "disable", val |-> TRUE, again |-> ret.op = "disable",
                    done |-> TRUE]
            /\ UNCHANGED fh_phase
       ELSE /\ ret' = [op |-> "disable", val |-> FALSE, again |-> ret.op = "disable",
                    done |-> FALSE]
            /\ fh_phase' = "Disabling"
    /\ UNCHANGED <<fh_active, fh_pending, fh_old, fh_saved, fh_warm, disp, disp0,
                   req_cfg, enables>>

\* The disposition disable gives signal s.
RestoredDisposition(s) == IF fh_saved[s] # None THEN fh_saved[s] ELSE disp[s]

\* Disabling: every recorded original disposition is restored and the active
\* configuration cleared.  The call returns True.
native_disable_restore ==
    /\ proc = "running"
    /\ fh_phase = "Disabling"
    /\ disp' = [s \in Signals |-> RestoredDisposition(s)]
    /\ fh_saved' = [s \in Signals |-> None]
    /\ fh_active' = NoConfig
    /\ fh_pending' = NoConfig
    /\ fh_old' = NoConfig
    /\ req_cfg' = NoConfig
    /\ fh_phase' = "Disabled"
    /\ ret' = [ret EXCEPT !.val = TRUE, !.done = TRUE]
    /\ UNCHANGED <<fh_warm, disp0, enables>>
    /\ UNCHANGED <<platformVars, wrapperVars, native_called, faultVars, studyVars>>

(***************************************************************************)
(* The wrapper's fault-handler functions.                                  *)
(***************************************************************************)
\* Mutant of enable_faulthandler: report_path is not passed on.
enable_faulthandler_drops_path(signals, report_path) ==
    /\ ApiIdle
    /\ IF ~SUPPORTED
       THEN /\ ret' = [op |-> "enable", val |-> FALSE, again |-> FALSE, done |-> TRUE]
            /\ UNCHANGED <<native_called, fhVars>>
       ELSE /\ ret' = [op |-> "enable", val |-> FALSE, again |-> FALSE, done |-> FALSE]
            /\ req_cfg' = [signals |-> ResolveSignals(signals),
                           report_path |-> report_path]
            /\ enables' = IF fh_active = NoConfig THEN 1 ELSE 2
            /\ native_enable_begin(signals, None)
    /\ UNCHANGED <<platformVars, wrapperVars, faultVars, studyVars>>

\* enable_faulthandler(signals, report_path)
enable_faulthandler(signals, report_path) ==
    /\ ApiIdle
    /\ IF ~SUPPORTED
       THEN /\ ret' = [op |-> "enable", val |-> FALSE, again |-> FALSE, done |-> TRUE]
            /\ UNCHANGED <<native_called, fhVars>>
       ELSE /\ ret' = [op |-> "enable", val |-> FALSE, again |-> FALSE, done |-> FALSE]
            /\ req_cfg' = [signals |-> ResolveSignals(signals),
                           report_path |-> report_path]
            /\ enables' = IF fh_active = NoConfig THEN 1 ELSE 2
            /\ native_enable_begin(signals, report_path)
    /\ UNCHANGED <<platformVars, wrapperVars, faultVars, studyVars>>

\* Mutant of disable_faulthandler: the guard is inverted, so that a supported
\* platform gets False and the native module is not called.
disable_faulthandler_inverted ==
    /\ ApiIdle
    /\ ret' = [op |-> "disable", val |-> FALSE, again |-> ret.op = "disable",
               done |-> TRUE]
    /\ UNCHANGED <<native_called, fhVars>>
    /\ UNCHANGED <<platformVars, wrapperVars, faultVars, studyVars>>

\* disable_faulthandler()
disable_faulthandler ==
    /\ ApiIdle
    /\ IF ~SUPPORTED
       THEN /\ ret' = [op |-> "disable", val |-> FALSE, again |-> ret.op = "disable",
                    done |-> TRUE]
            /\ UNCHANGED <<native_called, fhVars>>
       ELSE native_disable_begin
    /\ UNCHANGED <<platformVars, wrapperVars, faultVars, studyVars>>

\* Mutant of faulthandler_enabled: the guard is inverted.
faulthandler_enabled_inverted == IF SUPPORTED THEN FALSE ELSE native_faulthandler_enabled

\* faulthandler_enabled()
faulthandler_enabled == IF ~SUPPORTED THEN FALSE ELSE native_faulthandler_enabled

\* get_signals()
get_signals == IF ~SUPPORTED THEN <<>> ELSE native_get_signals

\* get_default_signals()
get_default_signals == IF ~SUPPORTED THEN <<>> ELSE native_get_default_signals

\* A query is called: faulthandler_enabled, get_signals or get_default_signals.
Call_query(op) ==
    /\ ApiIdle
    /\ ret' = [op |-> op,
               val |-> CASE op = "faulthandler_enabled" -> faulthandler_enabled
                         [] op = "get_signals" -> get_signals
                         [] op = "get_default_signals" -> get_default_signals,
               again |-> FALSE, done |-> TRUE]
    /\ native_called' = (native_called \/ SUPPORTED)
    /\ UNCHANGED <<platformVars, wrapperVars, fhVars, faultVars, studyVars>>

Queries == {"faulthandler_enabled", "get_signals", "get_default_signals"}

(***************************************************************************)
(* Threads of a supported platform.                                        *)
(***************************************************************************)
SkipArgs == 0..MaxSkipArg

InitThreads ==
    /\ SUPPORTED = TRUE
    /\ InitWrapper
    /\ InitApi
    /\ InitFaultHandler(AllDefault)
    /\ InitStudy

NextThreads ==
    \/ \E t \in Threads, k \in SkipArgs : Call_get_backtrace(t, k)
    \/ \E t \in Threads, k \in SkipArgs : Call_print_backtrace(t, k)
    \/ \E t \in Threads : GB_Guard(t)
    \/ \E t \in Threads : GDS_Check(t)
    \/ \E t \in Threads : GDS_Construct(t)
    \/ \E t \in Threads : GDS_Assign(t)
    \/ \E t \in Threads : GDS_Return(t)
    \/ \E t \in Threads : GB_Capture(t)
    \/ \E t \in Threads : PB_Print(t)
    \/ \E op \in {"get_signals", "get_default_signals"} : Call_query(op)

\* Threads of a supported platform calling get_backtrace and print_backtrace,
\* and the signal queries.
SpecThreads == InitThreads /\ [][NextThreads]_vars

(***************************************************************************)
(* Fault delivery.                                                         *)
(***************************************************************************)
\* A fault signal whose disposition is the default one: the process dies.
FaultDefault(s) ==
    /\ proc = "running"
    /\ disp[s] = SIG_DFL
    /\ proc' = "terminated"
    /\ termsig' = s
    /\ UNCHANGED <<cur, stderr, files>>
    /\ UNCHANGED <<platformVars, wrapperVars, apiVars, fhVars, studyVars>>

\* A fault signal for which the handler is installed: the handler starts and
\* reads the active configuration once.
FaultHandlerEntry(s) ==
    /\ proc = "running"
    /\ disp[s] = FH
    /\ Len(stderr) < MaxReports
    /\ proc' = "handling"
    /\ cur' = [sig |-> s, cfg |-> fh_active, step |-> "report"]
    /\ UNCHANGED <<stderr, files, termsig>>
    /\ UNCHANGED <<platformVars, wrapperVars, apiVars, fhVars, studyVars>>

\* The report of the fault being handled.
Report == [sig |-> cur.sig, path |-> cur.cfg.report_path]

\* The handler unwinds and writes the report to standard error and to the
\* report file, if the signal belongs to the configuration it read.
HandlerReport ==
    /\ proc = "handling"
    /\ cur.step = "report"
    /\ IF cur.sig \in cur.cfg.signals
       THEN /\ stderr' = Append(stderr, Report)
            /\ files' = [p \in DOMAIN files |->
                           IF p = cur.cfg.report_path
                           THEN Append(files[p], Report) ELSE files[p]]
       ELSE UNCHANGED <<stderr, files>>
    /\ cur' = [cur EXCEPT !.step = "reraise"]
    /\ UNCHANGED <<proc, termsig>>
    /\ UNCHANGED <<platformVars, wrapperVars, apiVars, fhVars, studyVars>>

\* Mutant of AfterReraise: the handler returns instead of re-raising.
AfterReraise_swallow(d) == "running"

\* What the re-raised signal does under the disposition d just restored.
AfterReraise(d) == IF d = SIG_DFL THEN "terminated" ELSE "running"

\* The handler restores the signal's original disposition and re-raises it.
HandlerReraise ==
    /\ proc = "handling"
    /\ cur.step = "reraise"
    /\ disp' = [disp EXCEPT ![cur.sig] = fh_saved[cur.sig]]
    /\ proc' = AfterReraise(fh_saved[cur.sig])
    /\ termsig' = IF fh_saved[cur.sig] = SIG_DFL THEN cur.sig ELSE termsig
    /\ cur' = [cur EXCEPT !.step = "done"]
    /\ UNCHANGED <<stderr, files>>
    /\ UNCHANGED <<fh_phase, fh_active, fh_pending, fh_old, fh_saved, fh_warm,
                   disp0, req_cfg, enables>>
    /\ UNCHANGED <<platformVars, wrapperVars, apiVars, studyVars>>

(***************************************************************************)
(* The fault handler of one process, on a supported or unsupported         *)
(* platform, under any prior dispositions.                                 *)
(***************************************************************************)
Init ==
    /\ SUPPORTED \in BOOLEAN
    /\ InitWrapper
    /\ InitApi
    /\ \E prior \in [Signals -> PriorDispositions] : InitFaultHandler(prior)
    /\ InitStudy

Next ==
    \/ \E sg \in SignalArgs, rp \in ReportPaths : enable_faulthandler(sg, rp)
    \/ native_enable_warm
    \/ native_enable_install
    \/ native_enable_swap
    \/ disable_faulthandler
    \/ native_disable_restore
    \/ Call_query("faulthandler_enabled")
    \/ \E s \in Signals : FaultDefault(s)
    \/ \E s \in Signals : FaultHandlerEntry(s)
    \/ HandlerReport
    \/ HandlerReraise

Spec == Init /\ [][Next]_vars

\* The handler, once started, runs to its end: it is ordinary synchronous code.
SpecFair == Spec /\ WF_vars(HandlerReport) /\ WF_vars(HandlerReraise)

(***************************************************************************)
(* Claims about the fault handler.                                         *)
(***************************************************************************)
EnableInProgress == fh_phase \in {"Enabling", "Installing", "Swapping"}

\* A disable call made while the handler is disabled, on a supported platform.
DisableWhileDisabled ==
    /\ SUPPORTED
    /\ fh_phase = "Disabled"
    /\ ret' # ret
    /\ ret'.op = "disable"

\* C1: on a supported platform faulthandler_enabled() is true once a
\* successful enable_faulthandler() has returned and false once
\* disable_faulthandler() has returned; disable_faulthandler() returns True
\* also when called while disabled, and then changes nothing.
C1_EnableDisable ==
    /\ [](SUPPORTED /\ ret.done =>
            /\ (ret.op = "enable" /\ ret.val = TRUE => faulthandler_enabled)
            /\ (ret.op = "disable" => ret.val = TRUE /\ ~faulthandler_enabled))
    /\ [][DisableWhileDisabled =>
            /\ ret'.done /\ ret'.val = TRUE
            /\ UNCHANGED <<fhVars, faultVars>>]_vars

\* C1 witness: a second disable_faulthandler() in a row has returned True.
C1_Witness ==
    /\ SUPPORTED
    /\ ret.op = "disable" /\ ret.again /\ ret.done /\ ret.val = TRUE
    /\ enables > 0

\* The handler has written the report of the fault it is handling.
Reported ==
    /\ Len(stderr) > 0
    /\ stderr[Len(stderr)] = Report
    /\ cur.cfg.report_path # None =>
         /\ Len(files[cur.cfg.report_path]) > 0
         /\ files[cur.cfg.report_path][Len(files[cur.cfg.report_path])] = Report

\* The handler runs for a signal of the configuration it read.
HandlingActive == proc = "handling" /\ cur.sig \in cur.cfg.signals

\* C2: a fault in the active signal set is never swallowed: the handler
\* writes the report before it restores the original disposition and
\* re-raises, and when that disposition is the default one the process ends
\* terminated by that signal.
C2_FaultNeverSwallowed ==
    /\ [](cur.sig \in cur.cfg.signals /\ cur.step \in {"reraise", "done"} => Reported)
    /\ [][HandlingActive /\ cur.step = "reraise" /\ cur'.step = "done" =>
            /\ Reported
            /\ disp'[cur.sig] = fh_saved[cur.sig]
            /\ (fh_saved[cur.sig] = SIG_DFL =>
                  proc' = "terminated" /\ termsig' = cur.sig)]_vars
    /\ (HandlingActive /\ fh_saved[cur.sig] = SIG_DFL)
          ~> (proc = "terminated" /\ termsig = cur.sig /\ Reported
              /\ disp[cur.sig] = SIG_DFL)

\* C2 witness: the process was terminated by a signal the handler reported,
\* with a report file configured.
C2_Witness ==
    /\ proc = "terminated"
    /\ cur.step = "done"
    /\ termsig = cur.sig
    /\ cur.sig \in cur.cfg.signals
    /\ cur.cfg.report_path # None
    /\ Reported

\* C3: the handler observes a whole configuration: while an enable is in
\* progress the one that was active before it or the one the caller asked
\* for, and otherwise the one the caller of the last enable asked for.
C3_AtomicReplace ==
    SUPPORTED /\ proc = "handling" =>
        IF EnableInProgress
        THEN cur.cfg = fh_old \/ cur.cfg = req_cfg
        ELSE cur.cfg = req_cfg

\* C3 witness: a fault is being handled in the middle of an enable that
\* replaces an active configuration by one with other signals and another
\* report path.
C3_Witness ==
    /\ proc = "handling"
    /\ fh_phase = "Swapping"
    /\ fh_old # NoConfig
    /\ req_cfg.signals # fh_old.signals
    /\ req_cfg.report_path # fh_old.report_path
    /\ cur.sig \in cur.cfg.signals

Armed == native_faulthandler_enabled \/ \E s \in Signals : disp[s] = FH

InitUnsupported ==
    /\ SUPPORTED = FALSE
    /\ InitWrapper
    /\ InitApi
    /\ \E prior \in [Signals -> PriorDispositions] : InitFaultHandler(prior)
    /\ InitStudy

NextUnsupported ==
    \/ \E t \in Threads, k \in SkipArgs : Call_get_backtrace(t, k)
    \/ \E t \in Threads, k \in SkipArgs : Call_print_backtrace(t, k)
    \/ \E t \in Threads : GB_Guard(t)
    \/ \E t \in Threads : PB_Print(t)
    \/ \E sg \in SignalArgs, rp \in ReportPaths : enable_faulthandler(sg, rp)
    \/ disable_faulthandler
    \/ \E op \in Queries : Call_query(op)

SpecUnsupported == InitUnsupported /\ [][NextUnsupported]_vars

(***************************************************************************)
(* Capture study: one capture through each entry point, for every depth    *)
(* of the calling stack and every skip.                                    *)
(***************************************************************************)
Entries == {"BacktraceState.get_backtrace", "get_backtrace", "print_backtrace"}

\* The frames the entry point returns to a caller whose stack is `callers`.
CaptureVia(entry, callers, skip) ==
    CASE entry = "BacktraceState.get_backtrace" ->
            BacktraceState_get_backtrace(callers, skip)
      [] entry = "get_backtrace" -> get_backtrace(TRUE, callers, skip)
      [] entry = "print_backtrace" -> print_backtrace_frames(TRUE, callers, skip)

\* The skip the native capture is given.
NativeSkipVia(entry, callers, skip) ==
    CASE entry = "BacktraceState.get_backtrace" ->
            BacktraceState_get_backtrace_call(callers, skip).skip
      [] entry = "get_backtrace" -> get_backtrace_call(callers, skip).skip
      [] entry = "print_backtrace" -> print_backtrace_call(callers, skip).skip

InitCapture ==
    /\ SUPPORTED = TRUE
    /\ InitWrapper
    /\ InitApi
    /\ InitFaultHandler(AllDefault)
    /\ str_in = NoFrame
    /\ str_out = <<>>
    /\ \E d \in 0..MaxCallerDepth, k \in 0..MaxSkip, e \in Entries :
          cap = [pc |-> "ready", depth |-> d, skip |-> k, entry |-> e,
                 nskip |-> 0, out |-> <<>>, out1 |-> <<>>]

\* The caller captures with skip and, at the same call site, with skip + 1.
Capture ==
    /\ cap.pc = "ready"
    /\ cap' = [cap EXCEPT
                 !.pc = "done",
                 !.nskip = NativeSkipVia(cap.entry, CallerStack(cap.depth), cap.skip),
                 !.out = CaptureVia(cap.entry, CallerStack(cap.depth), cap.skip),
                 !.out1 = CaptureVia(cap.entry, CallerStack(cap.depth), cap.skip + 1)]
    /\ UNCHANGED <<str_in, str_out>>
    /\ UNCHANGED <<platformVars, wrapperVars, apiVars, fhVars, faultVars>>

SpecCapture == InitCapture /\ [][Capture]_vars

(***************************************************************************)
(* Rendering study: str() of one frame.                                    *)
(***************************************************************************)
\* The pc of the frame: small values and the 0x12345 of the tests.
PcValues == 0..MaxPc \cup {74565}
NameValues(name) == {None, "", name}

InitStr ==
    /\ SUPPORTED = TRUE
    /\ InitWrapper
    /\ InitApi
    /\ InitFaultHandler(AllDefault)
    /\ cap = NoCapture
    /\ str_out = <<>>
    /\ \E pc \in PcValues, fn \in NameValues("test_func"),
          file \in NameValues("/path/to/file.c"), line \in 0..MaxLine :
          str_in = [pc |-> pc, function |-> fn, filename |-> file, lineno |-> line]

\* str(frame)
Render ==
    /\ str_out = <<>>
    /\ str_out' = BacktraceFrame_str(str_in)
    /\ UNCHANGED <<cap, str_in>>
    /\ UNCHANGED <<platformVars, wrapperVars, apiVars, fhVars, faultVars>>

SpecStr == InitStr /\ [][Render]_vars

(***************************************************************************)
(* Claims about the wrapper.                                               *)
(***************************************************************************)
\* C5: on an unsupported platform no call gets past its guard: none raises
\* or reaches the native module, get_backtrace returns the empty list,
\* enable_faulthandler, disable_faulthandler and faulthandler_enabled return
\* False, get_signals and get_default_signals return the empty list, and the
\* default state and the registration stay as they were.
C5_UnsupportedGraceful ==
    ~SUPPORTED =>
        /\ \A t \in Threads : tpc[t] \in {"idle", "gb_guard", "pb_print"}
        /\ \A t \in Threads : tret[t] = <<>>
        /\ ~native_called
        /\ ret.done
        /\ (ret.op \in {"enable", "disable", "faulthandler_enabled"} => ret.val = FALSE)
        /\ (ret.op \in {"get_signals", "get_default_signals"} => ret.val = <<>>)
        /\ default_state = NoState /\ nstates = 0
        /\ fh_phase = "Disabled" /\ fh_active = NoConfig /\ ~fh_warm
        /\ disp = disp0

\* C5 witness: on an unsupported platform get_backtrace has returned to one
\* thread, print_backtrace has written its line for another, and a
\* fault-handler call has returned.
C5_Witness ==
    /\ ~SUPPORTED
    /\ \E t \in Threads : tentry[t] = "get_backtrace" /\ tpc[t] = "idle"
    /\ \E t \in Threads : tentry[t] = "print_backtrace" /\ tpc[t] = "idle"
                          /\ Len(tout[t]) = 1
    /\ ret.op = "enable"

\* The caller frames left once skip of them are discarded.
Remaining == cap.depth - cap.skip

\* C7: at one call site capture(skip + 1) returns no more frames than
\* capture(skip), strictly fewer when the remaining depth is neither zero nor
\* truncated at the cap, and never more than MaxFrames.
C7_SkipMonotone ==
    cap.pc = "done" =>
        /\ Len(cap.out1) <= Len(cap.out)
        /\ Len(cap.out) <= MaxFrames
        /\ (Remaining > 0 /\ Remaining <= MaxFrames => Len(cap.out1) < Len(cap.out))

\* C7 witness: a stack that just fills the cap, one frame shorter with one
\* more skipped.
C7_Witness ==
    /\ cap.pc = "done"
    /\ cap.skip > 0
    /\ Len(cap.out) = MaxFrames
    /\ Len(cap.out1) = MaxFrames - 1

RECURSIVE DigitsValue(_, _)
\* The number a sequence of digits denotes in the given base.
DigitsValue(ds, base) ==
    IF ds = <<>> THEN 0
    ELSE LET last == ds[Len(ds)]
             v == CHOOSE i \in 0..(base - 1) : Digits[i + 1] = last
         IN  DigitsValue(SubSeq(ds, 1, Len(ds) - 1), base) * base + v

\* ds writes n in the given base, in lowercase and without leading zeros.
Writes(ds, n, base) ==
    /\ Len(ds) >= 1
    /\ \A i \in 1..Len(ds) : \E j \in 1..base : Digits[j] = ds[i]
    /\ ds[1] = "0" => Len(ds) = 1
    /\ DigitsValue(ds, base) = n

\* A field of a frame is set.
IsSet(x) == x # None /\ x # ""

Drop(q, n) == SubSeq(q, n + 1, Len(q))

Layers(entry) ==
    CASE entry = "BacktraceState.get_backtrace" -> 1
      [] entry = "get_backtrace" -> 2
      [] entry = "print_backtrace" -> 3

\* C9: each wrapper layer adds one to skip: the native capture is given
\* skip + 1, skip + 2 and skip + 3 by BacktraceState.get_backtrace,
\* get_backtrace and print_backtrace; the result holds no wrapper frame and
\* starts, whatever the entry point, at the caller's frame number skip + 1.
C9_WrapperSkip ==
    cap.pc = "done" =>
        /\ cap.nskip = cap.skip + Layers(cap.entry)
        /\ \A i \in 1..Len(cap.out) : cap.out[i].function \notin Entries
        /\ Len(cap.out) = Min(IF Remaining > 0 THEN Remaining ELSE 0, MaxFrames)
        /\ \A i \in 1..Len(cap.out) :
              cap.out[i] = BacktraceFrame(CallerFrame(cap.skip + i))

\* C9 witness: print_backtrace with a skip of its own has obtained frames.
C9_Witness ==
    /\ cap.pc = "done"
    /\ cap.entry = "print_backtrace"
    /\ cap.skip = 2
    /\ cap.nskip = 5
    /\ Len(cap.out) > 0
    /\ cap.out[1].pc = CallerFrame(3)[1]

\* C10: the default state is created at most once, and once set
\* _default_state is never replaced.
C10_DefaultStateOnce ==
    /\ nstates <= 1
    /\ \A t \in Threads : tpc[t] = "gds_assign" => default_state = NoState

====
